---------------------------- MODULE Spec2Model ----------------------------
(***************************************************************************)
(* A model of three units of the tensorflow_datasets sources:              *)
(*                                                                         *)
(*   text/qa4mre.py                 Qa4mreConfig.__init__,                  *)
(*                                  Qa4mre._split_generators,               *)
(*                                  Qa4mre._generate_examples               *)
(*   image_classification/svhn.py   SvhnCropped._generate_examples          *)
(*                                                                         *)
(* Python strings are sequences of one-character strings, so that lower(), *)
(* upper() and '+' are computed character by character.  A generator is a  *)
(* process whose local variables live across its yields; one action is one *)
(* resumption of the generator (one next()), up to its next yield, its     *)
(* return or the exception that ends it.                                   *)
(***************************************************************************)
EXTENDS Integers, Sequences, FiniteSets, TLC

VARIABLES
    builder,   \* the unit this behaviour exercises
    cfgs,      \* slot -> the outcome of one Qa4mreConfig(...) call
    builds,    \* slot -> the outcome of Qa4mre._split_generators on that config
    source,    \* the content of the file handed to _generate_examples
    runs       \* invocation -> the generator's frame (position, locals, output)

vars == <<builder, cfgs, builds, source, runs>>

(***************************************************************************)
(* Bounds of the model.                                                    *)
(***************************************************************************)
MaxEntries == 4      \* entries of an SVHN .mat file
MaxElems == 5        \* topic, test and question elements of a QA4MRE file

\* Two configuration objects, and two invocations of one generator on one
\* file: what a statement about "any two" of them needs.
Slots == {1, 2}
Invocations == {1, 2}

(***************************************************************************)
(* Strings.                                                                *)
(***************************************************************************)
LowerLetters ==
    << "a","b","c","d","e","f","g","h","i","j","k","l","m",
       "n","o","p","q","r","s","t","u","v","w","x","y","z" >>

UpperLetters ==
    << "A","B","C","D","E","F","G","H","I","J","K","L","M",
       "N","O","P","Q","R","S","T","U","V","W","X","Y","Z" >>

LowerChar(c) ==
    IF \E i \in 1..26 : UpperLetters[i] = c
    THEN LowerLetters[CHOOSE i \in 1..26 : UpperLetters[i] = c]
    ELSE c

UpperChar(c) ==
    IF \E i \in 1..26 : LowerLetters[i] = c
    THEN UpperLetters[CHOOSE i \in 1..26 : LowerLetters[i] = c]
    ELSE c

\* str.lower()
Lower(s) == [i \in 1..Len(s) |-> LowerChar(s[i])]

\* str.upper()
Upper(s) == [i \in 1..Len(s) |-> UpperChar(s[i])]

Range(s) == {s[i] : i \in 1..Len(s)}

(***************************************************************************)
(* qa4mre.py: module constants.                                            *)
(***************************************************************************)
Str_main == <<"m","a","i","n">>
Str_alzheimers == <<"a","l","z","h","e","i","m","e","r","s">>
Str_entrance_exam == <<"e","n","t","r","a","n","c","e","_","e","x","a","m">>
Str_EN == <<"E","N">>

TRACKS == <<Str_main, Str_alzheimers, Str_entrance_exam>>

LANGUAGES_MAIN == << <<"A","R">>, <<"B","G">>, Str_EN, <<"E","S">>, <<"R","O">> >>

BASE_URL == <<"BASE_URL/">>
PATH_TMPL_MAIN_GS(lang) == <<"2013/Main_Task/.../QA4MRE-2013-">> \o lang \o <<"_GS.xml">>
PATH_ALZHEIMER == <<"2013/Biomedical_About_Alzheimer/.../QA4MRE-2013_BIO_GS-RUN.xml">>
PATH_ENTRANCE_EXAM == <<"2013/Entrance_Exams/.../qa4mre-exam-test-withanswer.xml">>

(***************************************************************************)
(* The arguments a caller may pass to Qa4mreConfig: the legal values in    *)
(* several spellings, and values outside the enumerations.                 *)
(***************************************************************************)
TrackArgs ==
    { Str_main, <<"M","a","i","n">>, Str_alzheimers,
      <<"A","L","Z","H","E","I","M","E","R","S">>, Str_entrance_exam,
      <<"p","i","l","o","t">> }

LanguageArgs ==
    { <<"A","R">>, <<"B","G">>, Str_EN, <<"E","S">>, <<"R","O">>,
      <<"e","n">>, <<"r","o">>, <<"F","R">>, <<"f","r">> }

(***************************************************************************)
(* Qa4mreConfig.__init__(track, language).  The result is the object's     *)
(* fields, or the exception raised.                                        *)
(***************************************************************************)
NoConfig == [state |-> "none"]

\* line 71: track.lower() not in _TRACKS
IllegalTrack(track) == Lower(track) \notin Range(TRACKS)

\* line 75: track.lower() != 'main' and language.upper() != 'EN'
ForcesEnglish(track, language) ==
    Lower(track) # Str_main /\ Upper(language) # Str_EN

\* Lines 76-79 with the warning alone: the language is left as given.
EffectiveLanguageWarnOnly(track, language) == language

\* lines 76-79: the warning, and the language the constructor goes on with
EffectiveLanguage(track, language) ==
    IF ForcesEnglish(track, language) THEN Str_EN ELSE language

\* The test of line 81 with the track compared as given.
IllegalMainLanguageTrackAsGiven(track, language) ==
    track = Str_main /\ Upper(language) \notin Range(LANGUAGES_MAIN)

\* line 81: track.lower() == 'main' and language.upper() not in _LANGUAGES_MAIN
IllegalMainLanguage(track, language) ==
    Lower(track) = Str_main /\ Upper(language) \notin Range(LANGUAGES_MAIN)

\* line 89: name = self.track + '.' + self.lang
ConfigName(track, lang) == track \o <<".">> \o lang

Qa4mreConfigInit(track, language) ==
    IF IllegalTrack(track)
    THEN [state |-> "raised", error |-> "ValueError",
          track_arg |-> track, language_arg |-> language]
    ELSE LET lang0 == EffectiveLanguage(track, language) IN
         IF IllegalMainLanguage(track, lang0)
         THEN [state |-> "raised", error |-> "ValueError",
               track_arg |-> track, language_arg |-> language]
         ELSE [state |-> "constructed",
               track_arg |-> track, language_arg |-> language,
               warned |-> ForcesEnglish(track, language),
               track |-> Lower(track),
               lang |-> Upper(lang0),
               name |-> ConfigName(Lower(track), Upper(lang0))]

(***************************************************************************)
(* Qa4mre._split_generators(dl_manager) with builder_config = cfg.         *)
(***************************************************************************)
NoBuild == [state |-> "none"]

\* lines 161-172: the dict of requested resources, key -> URL
DownloadUrls(cfg) ==
    LET main == IF cfg.track = Str_main
                THEN {<<ConfigName(Str_main, cfg.lang),
                        BASE_URL \o PATH_TMPL_MAIN_GS(cfg.lang)>>}
                ELSE {}
        alz == IF cfg.track = Str_alzheimers
               THEN {<<ConfigName(Str_alzheimers, Str_EN),
                       BASE_URL \o PATH_ALZHEIMER>>}
               ELSE {}
        exam == IF cfg.track = Str_entrance_exam
                THEN {<<ConfigName(Str_entrance_exam, Str_EN),
                        BASE_URL \o PATH_ENTRANCE_EXAM>>}
                ELSE {}
    IN  main \cup alz \cup exam

\* dl_manager.download_and_extract: the same keys, each with a local path
DownloadAndExtract(urls) == {<<kv[1], <<"local:">> \o kv[2]>> : kv \in urls}

Keys(mapping) == {kv[1] : kv \in mapping}

Lookup(mapping, key) == (CHOOSE kv \in mapping : kv[1] = key)[2]

\* The key of line 181 built from the language the caller gave.
SplitKeyFromArgument(cfg) == ConfigName(cfg.track, Upper(cfg.language_arg))

\* line 181: the key looked up in downloaded_files
SplitKey(cfg) == ConfigName(cfg.track, cfg.lang)

SplitGenerators(cfg) ==
    LET download_urls == DownloadUrls(cfg)
        downloaded_files == DownloadAndExtract(download_urls)
        key == SplitKey(cfg)
    IN  IF key \in Keys(downloaded_files)
        THEN [state |-> "returned",
              download_urls |-> download_urls,
              splits |-> << [name |-> "train",
                             filepath |-> Lookup(downloaded_files, key)] >>]
        ELSE [state |-> "raised", error |-> "KeyError",
              download_urls |-> download_urls]

(***************************************************************************)
(* Actions of the configuration unit.                                      *)
(***************************************************************************)
Construct(s, track, language) ==
    /\ builder = "Qa4mreConfig"
    /\ cfgs[s].state = "none"
    /\ cfgs' = [cfgs EXCEPT ![s] = Qa4mreConfigInit(track, language)]
    /\ UNCHANGED <<builder, builds, source, runs>>

CallSplitGenerators(s) ==
    /\ builder = "Qa4mreConfig"
    /\ cfgs[s].state = "constructed"
    /\ builds[s].state = "none"
    /\ builds' = [builds EXCEPT ![s] = SplitGenerators(cfgs[s])]
    /\ UNCHANGED <<builder, cfgs, source, runs>>

(***************************************************************************)
(* svhn.py: SvhnCropped._generate_examples(filepath).  The file is what    *)
(* loadmat returns: X, the images (last axis rolled first), and y, their   *)
(* raw labels.                                                             *)
(***************************************************************************)
RawLabels == {0, 1, 2, 9, 10, 11}

RECURSIVE SeqsUpTo(_, _)
SeqsUpTo(S, n) ==
    IF n = 0 THEN {<<>>}
    ELSE LET shorter == SeqsUpTo(S, n - 1)
         IN  shorter \cup {Append(s, x) : s \in {t \in shorter : Len(t) = n - 1}, x \in S}

\* An image is known by its place in the file.
SvhnFiles ==
    {[X |-> [i \in 1..Len(y) |-> <<"image", i>>], y |-> y] :
        y \in SeqsUpTo(RawLabels, MaxEntries)}

Max(S) == CHOOSE x \in S : \A z \in S : z <= x
Min(S) == CHOOSE x \in S : \A z \in S : x <= z

\* The sanity check without its second assert.
SanityCheckMaxOnly(y) == Max(Range(y)) <= 10

\* lines 110-111: assert np.max(data["y"]) <= 10; assert np.min(data["y"]) > 0
SanityCheck(y) == Max(Range(y)) <= 10 /\ Min(Range(y)) > 0

\* The label of line 118 without the modulo.
SvhnLabelRaw(label) == label

\* line 118: label % 10
SvhnLabel(label) == label % 10

\* The pair of lines 113-120 keyed by a counter that all invocations share.
SvhnExampleSharedCounter(data, i) ==
    << Len(runs[1].out) + Len(runs[2].out),
       [image |-> data.X[i + 1], label |-> data.y[i + 1] % 10] >>

\* lines 113-120: the pair yielded for the entry at (0-based) index i
SvhnExample(data, i) ==
    <<i, [image |-> data.X[i + 1], label |-> SvhnLabel(data.y[i + 1])] >>

\* zip(np.rollaxis(data["X"], -1), data["y"]) stops with the shorter one
SvhnLength(data) == IF Len(data.X) <= Len(data.y) THEN Len(data.X) ELSE Len(data.y)

SvhnStart == [pc |-> "start", i |-> 0, out |-> <<>>, error |-> "none"]

\* One resumption of the generator.
SvhnResume(frame, data) ==
    IF frame.pc = "start" /\ Len(data.y) = 0
    THEN \* np.max of an empty array
         [frame EXCEPT !.pc = "raised", !.error = "ValueError"]
    ELSE IF frame.pc = "start" /\ ~SanityCheck(data.y)
    THEN [frame EXCEPT !.pc = "raised", !.error = "AssertionError"]
    ELSE IF frame.i < SvhnLength(data)
    THEN [frame EXCEPT !.pc = "suspended", !.i = frame.i + 1,
                       !.out = Append(frame.out, SvhnExample(data, frame.i))]
    ELSE [frame EXCEPT !.pc = "done"]

SvhnNext(r) ==
    /\ builder = "SvhnCropped"
    /\ runs[r].pc \in {"start", "suspended"}
    /\ runs' = [runs EXCEPT ![r] = SvhnResume(runs[r], source)]
    /\ UNCHANGED <<builder, cfgs, builds, source>>

InitSvhn ==
    /\ builder = "SvhnCropped"
    /\ cfgs = [s \in Slots |-> NoConfig]
    /\ builds = [s \in Slots |-> NoBuild]
    /\ source \in SvhnFiles
    /\ runs = [r \in Invocations |-> SvhnStart]

(***************************************************************************)
(* qa4mre.py: Qa4mre._generate_examples(filepath).  The file is the XML    *)
(* tree in document order: the topic, reading-test and q elements, each    *)
(* reading-test with its doc children and each q with its q_str and its    *)
(* answer children.  A reading-test belongs to the last topic before it    *)
(* and a q to the last reading-test before it.                             *)
(***************************************************************************)
TestIds == {<<"1">>, <<"1", "_", "1">>}
QuestionIds == {<<"1">>, <<"1", "_", "1">>}
DocCounts == {0, 1}
\* which answers of a question carry the attribute "correct"
AnswerMarks == {<<FALSE, FALSE>>, <<TRUE, FALSE>>, <<FALSE, TRUE>>}

Digits == <<"1", "2", "3", "4", "5", "6", "7", "8", "9">>
NumStr(n) == <<Digits[n]>>

\* Topics, texts, doc ids and answer ids are known by their place in the
\* file; the ids of reading-tests and questions are the file's to choose.
TopicElem(k) ==
    [tag |-> "topic", t_id |-> NumStr(k), t_name |-> <<"T", "o", "p", "i", "c">> \o NumStr(k)]

TestElem(k, r_id, ndocs) ==
    [tag |-> "reading-test", r_id |-> r_id,
     docs |-> [j \in 1..ndocs |->
                 [d_id |-> <<"d">> \o NumStr(k) \o NumStr(j),
                  text |-> <<"doc text ">> \o NumStr(k) \o NumStr(j)]]]

QuestionElem(k, q_id, marks) ==
    [tag |-> "q", q_id |-> q_id,
     q_str |-> <<"question text ">> \o NumStr(k),
     answers |-> [j \in 1..Len(marks) |->
                    [a_id |-> NumStr(j),
                     text |-> <<"answer text ">> \o NumStr(k) \o NumStr(j),
                     correct |-> marks[j]]]]

\* The shape of an element: its tag and what the file is free to say of it.
ElemShapes ==
    {<<"topic">>}
    \cup ({"reading-test"} \X TestIds \X DocCounts)
    \cup ({"q"} \X QuestionIds \X AnswerMarks)

\* The element of shape sh at place k of the file.
Elem(sh, k) ==
    IF sh[1] = "topic" THEN TopicElem(k)
    ELSE IF sh[1] = "reading-test" THEN TestElem(k, sh[2], sh[3])
    ELSE QuestionElem(k, sh[2], sh[3])

\* The root holds topics, a topic holds reading-tests and a reading-test
\* holds questions.
WellFormed(shapes) ==
    \A k \in 1..Len(shapes) :
        \/ shapes[k][1] = "topic"
        \/ shapes[k][1] = "reading-test" /\ k > 1
        \/ shapes[k][1] = "q" /\ k > 1 /\ shapes[k - 1][1] # "topic"

QaFile(shapes) == [k \in 1..Len(shapes) |-> Elem(shapes[k], k)]

QaStart ==
    [pc |-> "start", pos |-> 0, out |-> <<>>, error |-> "none", bound |-> {},
     topic_id |-> <<>>, topic_name |-> <<>>, test_id |-> <<>>,
     document_id |-> <<>>, document_str |-> <<>>,
     question_id |-> <<>>, question_str |-> <<>>, possible_answers |-> <<>>,
     correct_answer_id |-> <<>>, correct_answer_str |-> <<>>]

\* lines 191-192
EnterTopic(frame, topic) ==
    [frame EXCEPT !.topic_id = topic.t_id, !.topic_name = topic.t_name,
                  !.bound = @ \cup {"topic_id", "topic_name"}]

\* lines 194-197: the loop over the docs leaves the last doc in the locals,
\* and leaves them as they were when the test has no doc
EnterTest(frame, test) ==
    LET n == Len(test.docs)
        f1 == [frame EXCEPT !.test_id = test.r_id, !.bound = @ \cup {"test_id"}]
    IN  IF n = 0 THEN f1
        ELSE [f1 EXCEPT !.document_id = test.docs[n].d_id,
                        !.document_str = test.docs[n].text,
                        !.bound = @ \cup {"document_id", "document_str"}]

\* lines 199-212: the loop over the answers leaves the last answer marked
\* correct in the locals, and leaves them as they were when none is marked
ReadQuestion(frame, question) ==
    LET answers == question.answers
        marked == {j \in 1..Len(answers) : answers[j].correct}
        f1 == [frame EXCEPT
                 !.question_id = question.q_id,
                 !.question_str = question.q_str,
                 !.possible_answers =
                     [j \in 1..Len(answers) |->
                        [answer_id |-> answers[j].a_id,
                         answer_str |-> answers[j].text]],
                 !.bound = @ \cup {"question_id", "question_str"}]
    IN  IF marked = {} THEN f1
        ELSE LET last == Max(marked)
             IN  [f1 EXCEPT !.correct_answer_id = answers[last].a_id,
                            !.correct_answer_str = answers[last].text,
                            !.bound = @ \cup {"correct_answer_id",
                                              "correct_answer_str"}]

\* line 214: id_ = topic_id + '_' + topic_name + '_' + test_id + '_' + question_id
QaKey(topic_id, topic_name, test_id, question_id) ==
    topic_id \o <<"_">> \o topic_name \o <<"_">> \o test_id \o <<"_">> \o question_id

\* lines 218-229: the pair yielded
QaExample(frame) ==
    << QaKey(frame.topic_id, frame.topic_name, frame.test_id, frame.question_id),
       [topic_id |-> frame.topic_id,
        topic_name |-> frame.topic_name,
        test_id |-> frame.test_id,
        document_id |-> frame.document_id,
        document_str |-> frame.document_str,
        question_id |-> frame.question_id,
        question_str |-> frame.question_str,
        answer_options |-> frame.possible_answers,
        correct_answer_id |-> frame.correct_answer_id,
        correct_answer_str |-> frame.correct_answer_str] >>

\* The locals the yield reads; reading an unbound one raises.
YieldReads ==
    {"topic_id", "topic_name", "test_id", "document_id", "document_str",
     "question_id", "question_str", "correct_answer_id", "correct_answer_str"}

QaYield(frame, k) ==
    IF YieldReads \subseteq frame.bound
    THEN [frame EXCEPT !.pc = "suspended", !.pos = k,
                       !.out = Append(frame.out, QaExample(frame))]
    ELSE [frame EXCEPT !.pc = "raised", !.pos = k, !.error = "UnboundLocalError"]

\* One resumption of the generator: on from element k to the next yield.
RECURSIVE QaAdvance(_, _, _)
QaAdvance(frame, file, k) ==
    IF k > Len(file) THEN [frame EXCEPT !.pc = "done", !.pos = Len(file)]
    ELSE IF file[k].tag = "topic" THEN QaAdvance(EnterTopic(frame, file[k]), file, k + 1)
    ELSE IF file[k].tag = "reading-test"
    THEN QaAdvance(EnterTest(frame, file[k]), file, k + 1)
    ELSE QaYield(ReadQuestion(frame, file[k]), k)

QaResume(frame, file) == QaAdvance(frame, file, frame.pos + 1)

QaNext(r) ==
    /\ builder = "Qa4mre"
    /\ runs[r].pc \in {"start", "suspended"}
    /\ runs' = [runs EXCEPT ![r] = QaResume(runs[r], source)]
    /\ UNCHANGED <<builder, cfgs, builds, source>>

InitQa ==
    /\ builder = "Qa4mre"
    /\ cfgs = [s \in Slots |-> NoConfig]
    /\ builds = [s \in Slots |-> NoBuild]
    /\ \E n \in 0..MaxElems : \E shapes \in [1..n -> ElemShapes] :
          WellFormed(shapes) /\ source = QaFile(shapes)
    /\ runs = [r \in Invocations |-> QaStart]

NoSource == <<>>
NoRuns == [r \in Invocations |-> [pc |-> "idle"]]

InitConfig ==
    /\ builder = "Qa4mreConfig"
    /\ cfgs = [s \in Slots |-> NoConfig]
    /\ builds = [s \in Slots |-> NoBuild]
    /\ source = NoSource
    /\ runs = NoRuns

Init == InitConfig \/ InitSvhn \/ InitQa

Next ==
    \/ \E s \in Slots, track \in TrackArgs, language \in LanguageArgs :
          Construct(s, track, language)
    \/ \E s \in Slots : CallSplitGenerators(s)
    \/ \E r \in Invocations : SvhnNext(r)
    \/ \E r \in Invocations : QaNext(r)

Spec == Init /\ [][Next]_vars

(***************************************************************************)
(* The statements checked.  What a statement says of the arguments is      *)
(* written here without the constructor's own tests: two strings are the   *)
(* same up to case when they have the same letters at the same places.     *)
(***************************************************************************)
SameLetter(c, d) ==
    \/ c = d
    \/ \E i \in 1..26 : {c, d} = {LowerLetters[i], UpperLetters[i]}

SameUpToCase(a, b) ==
    Len(a) = Len(b) /\ \A i \in 1..Len(a) : SameLetter(a[i], b[i])

OneOf(a, names) == \E i \in 1..Len(names) : SameUpToCase(a, names[i])

Called(s) == cfgs[s].state # "none"
Constructed(s) == cfgs[s].state = "constructed"
Rejected(s) == cfgs[s].state = "raised" /\ builds[s].state = "none"

\* C1: a constructor call with a track other than main (alzheimers,
\* entrance_exam) and a language other than EN fails: no configuration
\* object is produced and nothing is downloaded for it.
C1_NonMainLanguageFails ==
    \A s \in Slots :
        ( /\ Called(s)
          /\ OneOf(cfgs[s].track_arg, TRACKS)
          /\ ~SameUpToCase(cfgs[s].track_arg, Str_main)
          /\ ~SameUpToCase(cfgs[s].language_arg, Str_EN) )
        => Rejected(s)

\* C7: a constructor call whose track is not main, alzheimers or
\* entrance_exam (in any case), or whose track is main and whose language is
\* not AR, BG, EN, ES or RO (in any case), raises, and _split_generators
\* never runs (nothing is requested) for it.
C7_IllegalValuesRejected ==
    \A s \in Slots :
        ( /\ Called(s)
          /\ \/ ~OneOf(cfgs[s].track_arg, TRACKS)
             \/ /\ SameUpToCase(cfgs[s].track_arg, Str_main)
                /\ ~OneOf(cfgs[s].language_arg, LANGUAGES_MAIN) )
        => Rejected(s) /\ cfgs[s].error = "ValueError"

\* C7's case: one call rejected for its track and one for its main-track
\* language.
C7_Witness ==
    /\ Rejected(1) /\ cfgs[1].track_arg = <<"p","i","l","o","t">>
    /\ Rejected(2) /\ cfgs[2].track_arg = <<"M","a","i","n">>
    /\ cfgs[2].language_arg = <<"f","r">>

\* C8: two constructed configurations have the same name exactly when they
\* have the same track and lang; and every constructed configuration has a
\* track among main, alzheimers, entrance_exam, with a lang among AR, BG, EN,
\* ES, RO when the track is main and the lang EN otherwise.
C8_NameDeterminesOptions ==
    /\ \A s, t \in Slots :
          Constructed(s) /\ Constructed(t) =>
              ( cfgs[s].name = cfgs[t].name
                  <=> (cfgs[s].track = cfgs[t].track /\ cfgs[s].lang = cfgs[t].lang) )
    /\ \A s \in Slots :
          Constructed(s) =>
              /\ cfgs[s].track \in Range(TRACKS)
              /\ cfgs[s].track = Str_main => cfgs[s].lang \in Range(LANGUAGES_MAIN)
              /\ cfgs[s].track # Str_main => cfgs[s].lang = Str_EN

\* C8's case: two configurations built from different arguments, one of them
\* with its language overridden, that bear the same name.
C8_Witness ==
    /\ Constructed(1) /\ Constructed(2)
    /\ cfgs[1].name = cfgs[2].name
    /\ cfgs[1].track_arg # cfgs[2].track_arg
    /\ cfgs[1].language_arg = <<"F","R">>
    /\ cfgs[2].language_arg = <<"e","n">>

Built(s) == builds[s].state # "none"

\* C9: _split_generators on a constructed configuration requests exactly
\* one resource, under the configuration's name; it returns (the lookup of
\* the key does not fail) exactly one split, named train, whose filepath is
\* the path resolved for that resource; and two configurations with the same
\* track and lang get the same request and the same splits.
C9_OneResourceOneSplit ==
    /\ \A s \in Slots :
          Built(s) =>
              /\ builds[s].state = "returned"
              /\ Cardinality(builds[s].download_urls) = 1
              /\ Keys(builds[s].download_urls) = {cfgs[s].name}
              /\ Len(builds[s].splits) = 1
              /\ builds[s].splits[1].name = "train"
              /\ \E kv \in builds[s].download_urls :
                    builds[s].splits[1].filepath = <<"local:">> \o kv[2]
    /\ \A s, t \in Slots :
          ( /\ Built(s) /\ Built(t)
            /\ cfgs[s].track = cfgs[t].track /\ cfgs[s].lang = cfgs[t].lang )
          => builds[s] = builds[t]

\* C9's case: the splits of two configurations of the same track and lang,
\* one of them built with its language overridden.
C9_Witness ==
    /\ Built(1) /\ Built(2)
    /\ cfgs[1].track = Str_entrance_exam /\ cfgs[2].track = Str_entrance_exam
    /\ cfgs[1].warned /\ ~cfgs[2].warned

(***************************************************************************)
(* Statements about the generators.                                        *)
(***************************************************************************)
IsPrefix(a, b) == Len(a) <= Len(b) /\ \A i \in 1..Len(a) : a[i] = b[i]

Finished(r) == runs[r].pc \in {"done", "raised"}

\* Every raw label of the SVHN file lies in 1..10.
RawLabelsInRange == \A i \in 1..Len(source.y) : source.y[i] \in 1..10

\* What the statement expects of an SVHN file: entry i (from 0) under key i,
\* raw label 10 as 0 and the raw labels 1..9 as they are.
SvhnExpected ==
    [i \in 1..Len(source.y) |->
        << i - 1,
           [image |-> source.X[i],
            label |-> IF source.y[i] = 10 THEN 0 ELSE source.y[i]] >>]

\* C2: on an SVHN file of n entries whose raw labels all lie in 1..10 the
\* generator emits, in the file's order, the pairs (i, record i) with the
\* label remapped (10 to 0, 1..9 unchanged), and n of them by the time it
\* ends; it raises only on the file of no entry, having emitted nothing.
C2_SvhnEmitsRemappedLabels ==
    (builder = "SvhnCropped" /\ RawLabelsInRange) =>
        \A r \in Invocations :
            /\ IsPrefix(runs[r].out, SvhnExpected)
            /\ Finished(r) => runs[r].out = SvhnExpected
            /\ runs[r].pc = "raised" => Len(source.y) = 0

\* C2's case: the raw labels 10, 1, 2, 10 read to the end.
C2_Witness ==
    /\ builder = "SvhnCropped"
    /\ source.y = <<10, 1, 2, 10>>
    /\ runs[1].pc = "done"
    /\ [i \in 1..Len(runs[1].out) |-> runs[1].out[i][1]] = <<0, 1, 2, 3>>
    /\ [i \in 1..Len(runs[1].out) |-> runs[1].out[i][2].label] = <<0, 1, 2, 0>>

\* C6: whatever the SVHN file holds, every label emitted lies in 0..9, and
\* on a file with a raw label outside 1..10 the generator emits nothing: once
\* resumed it has failed.
C6_LabelBounds ==
    builder = "SvhnCropped" =>
        \A r \in Invocations :
            /\ \A i \in 1..Len(runs[r].out) : runs[r].out[i][2].label \in 0..9
            /\ ~RawLabelsInRange =>
                  /\ runs[r].out = <<>>
                  /\ runs[r].pc \in {"start", "raised"}

\* C6's case: a file whose second raw label is 11, and a file whose only raw
\* label is 0, each refused by the sanity check.
C6_Witness ==
    /\ builder = "SvhnCropped"
    /\ source.y \in {<<1, 11>>, <<0>>}
    /\ runs[1].pc = "raised" /\ runs[1].error = "AssertionError"
    /\ runs[2].pc = "raised"

\* The questions of the QA4MRE file, by place.
QuestionPlaces == {k \in 1..Len(source) : source[k].tag = "q"}

\* The place of the j-th question.
QuestionPlace(j) ==
    CHOOSE k \in QuestionPlaces : Cardinality({i \in QuestionPlaces : i <= k}) = j

\* The topic and the reading-test that enclose the element at place k.
TopicOf(k) == source[Max({i \in 1..k : source[i].tag = "topic"})]
TestOf(k) == source[Max({i \in 1..k : source[i].tag = "reading-test"})]

MarkedCorrect(q) == {j \in 1..Len(q.answers) : q.answers[j].correct}

OneCorrectEach ==
    \A k \in QuestionPlaces : Cardinality(MarkedCorrect(source[k])) = 1

\* The record carries the identifiers of the question at place k and of what
\* encloses it, and the a_id of that question's answer marked correct.
RecordOfQuestion(rec, k) ==
    /\ rec.topic_id = TopicOf(k).t_id
    /\ rec.test_id = TestOf(k).r_id
    /\ rec.question_id = source[k].q_id
    /\ \E j \in MarkedCorrect(source[k]) :
          rec.correct_answer_id = source[k].answers[j].a_id

\* C3: on a QA4MRE file in which every question has exactly one answer
\* marked correct, the generator yields one record per question, in document
\* order, each with its topic's t_id, its test's r_id, its own q_id and the
\* a_id of its own answer marked correct.
C3_OneRecordPerQuestion ==
    (builder = "Qa4mre" /\ OneCorrectEach) =>
        \A r \in Invocations :
            /\ Len(runs[r].out) <= Cardinality(QuestionPlaces)
            /\ \A j \in 1..Len(runs[r].out) :
                  RecordOfQuestion(runs[r].out[j][2], QuestionPlace(j))
            /\ Finished(r) =>
                  runs[r].pc = "done" /\ Len(runs[r].out) = Cardinality(QuestionPlaces)

\* The statement of C3 on the files in which, besides, every reading-test
\* has a doc.
EveryTestHasDoc ==
    \A k \in 1..Len(source) :
        source[k].tag = "reading-test" => Len(source[k].docs) > 0

C3_WhenEveryTestHasDoc ==
    (builder = "Qa4mre" /\ EveryTestHasDoc) => C3_OneRecordPerQuestion

\* C4: no two records emitted by one invocation of a generator bear the same
\* key, whatever identifiers the file holds.
C4_KeysUnique ==
    builder \in {"SvhnCropped", "Qa4mre"} =>
        \A r \in Invocations :
            \A i, j \in 1..Len(runs[r].out) :
                i # j => runs[r].out[i][1] # runs[r].out[j][1]

\* C4's failure on distinct identifiers: two records of one invocation whose
\* reading-test or question ids differ bear the same key.
C4_DistinctIdsSameKey ==
    /\ builder = "Qa4mre"
    /\ \E i, j \in 1..Len(runs[1].out) :
          /\ runs[1].out[i][1] = runs[1].out[j][1]
          /\ runs[1].out[i][2].test_id # runs[1].out[j][2].test_id
          /\ runs[1].out[i][2].question_id # runs[1].out[j][2].question_id

\* C4 for the SVHN generator alone, whose key is the index.
C4_SvhnKeysUnique == builder = "SvhnCropped" => C4_KeysUnique

C10_FieldsFromOwnElements ==
    builder = "Qa4mre" =>
        \A r \in Invocations :
            \A j \in 1..Len(runs[r].out) :
                LET k == QuestionPlace(j)
                    rec == runs[r].out[j][2]
                IN  /\ \E a \in MarkedCorrect(source[k]) :
                          /\ rec.correct_answer_id = source[k].answers[a].a_id
                          /\ rec.correct_answer_str = source[k].answers[a].text
                    /\ \E d \in 1..Len(TestOf(k).docs) :
                          /\ rec.document_id = TestOf(k).docs[d].d_id
                          /\ rec.document_str = TestOf(k).docs[d].text

=============================================================================
